---- MODULE Spec2Model ----
(***************************************************************************)
(* Integer division by invariant integers using multiplication             *)
(* (hwy/contrib/intdiv): parameter derivation (ComputeDivisorParams),      *)
(* vector evaluation (IntDiv, IntDivFloor) and the convenience and array   *)
(* entry points, for the lane types u8/u16/u32/u64 and i8/i16/i32/i64.     *)
(*                                                                         *)
(* Machine integers are fixed-width bit patterns.  A value of n bytes is a *)
(* sequence of n limbs in 0..255, least significant first; signed values   *)
(* are two's complement.  All arithmetic wraps at the width of the C++     *)
(* type the source computes in.  Shift counts, bit counts, lane counts and *)
(* array indices (C++ int / unsigned / size_t holding small numbers) are   *)
(* plain integers.                                                         *)
(***************************************************************************)
EXTENDS Integers, Sequences, FiniteSets, TLC

(***************************************************************************)
(* Fixed-width machine arithmetic on limb sequences                        *)
(***************************************************************************)

\* The function f on 1..n as a sequence.
AsSeq(f) == f \o << >>

BZero(n) == AsSeq([i \in 1..n |-> 0])

\* The n-limb pattern of a small natural number x (x < 2^31).
BFromNat(x, n) == AsSeq([i \in 1..n |-> IF i <= 4 THEN (x \div (256 ^ (i - 1))) % 256 ELSE 0])

BOne(n) == BFromNat(1, n)

BOnes(n) == AsSeq([i \in 1..n |-> 255])

RECURSIVE BCarry(_, _, _)
BCarry(cols, i, c) ==
    IF i > Len(cols) THEN << >>
    ELSE <<(cols[i] + c) % 256>> \o BCarry(cols, i + 1, (cols[i] + c) \div 256)

\* Propagate carries through column sums, dropping the carry out of the top.
BNorm(cols) == BCarry(AsSeq(cols), 1, 0)

\* x + y, x - y, -x, ~x modulo 2^(8 * Len(x)); operands have equal length.
BAdd(x, y) == BNorm([i \in 1..Len(x) |-> x[i] + y[i]])

BSub(x, y) == BNorm([i \in 1..Len(x) |-> x[i] + (255 - y[i]) + (IF i = 1 THEN 1 ELSE 0)])

BNot(x) == AsSeq([i \in 1..Len(x) |-> 255 - x[i]])

BNeg(x) == BSub(BZero(Len(x)), x)

RECURSIVE BMulCol(_, _, _, _)
BMulCol(x, y, k, i) ==
    IF i > k \/ i > Len(x) THEN 0
    ELSE (IF k - i + 1 <= Len(y) THEN x[i] * y[k - i + 1] ELSE 0) + BMulCol(x, y, k, i + 1)

\* The low n limbs of the product x * y.
BMul(x, y, n) == BNorm([k \in 1..n |-> BMulCol(x, y, k, 1)])

BIsNeg(x) == x[Len(x)] >= 128

\* Conversions between widths: zero extension, sign extension, truncation.
BZext(x, n) == AsSeq([i \in 1..n |-> IF i <= Len(x) THEN x[i] ELSE 0])

BSext(x, n) == AsSeq([i \in 1..n |-> IF i <= Len(x) THEN x[i] ELSE IF BIsNeg(x) THEN 255 ELSE 0])

BTrunc(x, n) == AsSeq([i \in 1..n |-> x[i]])

\* Right shift by s bits (0 <= s), filling with the byte fill.
BShrFill(x, s, fill) ==
    LET q == s \div 8
        r == s % 8
        g(j) == IF j <= Len(x) THEN x[j] ELSE fill
    IN  AsSeq([i \in 1..Len(x) |-> (g(i + q) \div (2 ^ r)) + (g(i + q + 1) % (2 ^ r)) * (2 ^ (8 - r))])

\* Logical and arithmetic right shift.
BShr(x, s) == BShrFill(x, s, 0)

BSar(x, s) == BShrFill(x, s, IF BIsNeg(x) THEN 255 ELSE 0)

\* Left shift by s bits (0 <= s), modulo 2^(8 * Len(x)).
BShl(x, s) ==
    LET q == s \div 8
        r == s % 8
        g(j) == IF j >= 1 THEN x[j] ELSE 0
    IN  AsSeq([i \in 1..Len(x) |-> ((g(i - q) * (2 ^ r)) % 256) + (g(i - q - 1) \div (2 ^ (8 - r)))])

RECURSIVE ByteAnd(_, _, _)
ByteAnd(a, b, k) ==
    IF k > 7 THEN 0
    ELSE (2 ^ k) * (((a \div (2 ^ k)) % 2) * ((b \div (2 ^ k)) % 2)) + ByteAnd(a, b, k + 1)

BAnd(x, y) == AsSeq([i \in 1..Len(x) |-> ByteAnd(x[i], y[i], 0)])

\* a ^ b == (a | b) - (a & b) == a + b - 2 * (a & b), bytewise.
BXor(x, y) == AsSeq([i \in 1..Len(x) |-> x[i] + y[i] - 2 * ByteAnd(x[i], y[i], 0)])

RECURSIVE BLtFrom(_, _, _)
BLtFrom(x, y, i) ==
    IF i < 1 THEN FALSE
    ELSE IF x[i] # y[i] THEN x[i] < y[i]
    ELSE BLtFrom(x, y, i - 1)

\* Unsigned and signed comparison of patterns of equal length.
BLtU(x, y) == BLtFrom(x, y, Len(x))

BLeU(x, y) == ~BLtU(y, x)

BLtS(x, y) == IF BIsNeg(x) # BIsNeg(y) THEN BIsNeg(x) ELSE BLtU(x, y)

BIsZero(x) == \A i \in 1..Len(x) : x[i] = 0

\* The n-limb pattern with only bit k set.
BPow2(k, n) == AsSeq([i \in 1..n |-> IF i = (k \div 8) + 1 THEN 2 ^ (k % 8) ELSE 0])

RECURSIVE BTopLimb(_, _)
BTopLimb(x, i) == IF i < 1 THEN 0 ELSE IF x[i] # 0 THEN i ELSE BTopLimb(x, i - 1)

\* c * y for a digit c in 0..255, in Len(y) limbs.
BMulDigit(y, c) == BNorm([i \in 1..Len(y) |-> c * y[i]])

\* The digit c of schoolbook long division in base 256, corrected against the
\* exact product p = c * y: the largest digit whose product does not exceed r.
RECURSIVE BDivCorrect(_, _, _, _)
BDivCorrect(y, r, c, p) ==
    IF BLeU(p, r) THEN [q |-> c, rem |-> BSub(r, p)]
    ELSE BDivCorrect(y, r, c - 1, BSub(p, y))

\* The estimate of a digit from the leading limbs (at most two too large).
\* y has t significant limbs and is given in t + 1 limbs; r, in t + 1 limbs,
\* is below 256 * y.
BDivEstimate(y, t, r) ==
    LET yh == IF t = 1 THEN y[1] ELSE 256 * y[t] + y[t - 1]
        rh == IF t = 1 THEN 256 * r[2] + r[1] ELSE 65536 * r[t + 1] + 256 * r[t] + r[t - 1]
    IN  IF rh \div yh > 255 THEN 255 ELSE rh \div yh

BDivDigit(y, t, r) ==
    LET Correct(c) == BDivCorrect(y, r, c, BMulDigit(y, c))
    IN  Correct(BDivEstimate(y, t, r))

\* Forces the evaluation of a loop state before the next iteration.
Strict(v) == v = v

\* The digits of x from limb j down; rem is the running remainder.
RECURSIVE BDivLimbs(_, _, _, _, _, _)
BDivLimbs(x, y, t, j, rem, quot) ==
    LET Step(dg) == IF Strict(dg) THEN BDivLimbs(x, y, t, j - 1, dg.rem, <<dg.q>> \o quot)
                    ELSE dg
    IN  IF j < 1 THEN [quot |-> quot, rem |-> rem]
        ELSE Step(BDivDigit(y, t, <<x[j]>> \o SubSeq(rem, 1, t)))

\* Unsigned division x / y and x % y (y # 0): quotient of Len(x) limbs,
\* remainder of one limb more than y has significant limbs.
BDivMod(x, y) ==
    LET Divide(t) == BDivLimbs(x, BZext(SubSeq(y, 1, t), t + 1), t, Len(x), BZero(t + 1), << >>)
    IN  Divide(BTopLimb(y, Len(y)))

BDiv(x, y) == BDivMod(x, y).quot

\* x % y in Len(y) limbs
BMod(x, y) == BZext(BDivMod(x, y).rem, Len(y))

RECURSIVE BLowLimb(_, _)
BLowLimb(x, i) == IF i > Len(x) THEN 0 ELSE IF x[i] # 0 THEN i ELSE BLowLimb(x, i + 1)

\* Number of leading / trailing zero bits of a non-zero pattern.
BClz(x) ==
    LET t == BTopLimb(x, Len(x))
    IN  8 * (Len(x) - t) + (CHOOSE k \in 0..7 : x[t] \div (2 ^ (7 - k)) = 1)

BCtz(x) ==
    LET t == BLowLimb(x, 1)
    IN  8 * (t - 1) + (CHOOSE k \in 0..7 : x[t] % (2 ^ (k + 1)) = 2 ^ k)

(***************************************************************************)
(* Lane types, build configuration, vectors                                *)
(***************************************************************************)

\* A lane type T: width in bits and signedness (uint8_t .. int64_t).
LaneType(bits, signed) == [bits |-> bits, signed |-> signed]

LaneTypes == {LaneType(b, sg) : b \in {8, 16, 32, 64}, sg \in BOOLEAN}

\* sizeof(T)
SizeOf(T) == T.bits \div 8

\* MulType_t<T>: the multiplier is twice as wide for 8- and 16-bit lanes.
MulTypeSize(T) == IF T.bits <= 16 THEN 2 * SizeOf(T) ELSE SizeOf(T)

\* std::numeric_limits<T>::min() and max() of a signed type of n bytes.
IntMin(n) == BPow2(8 * n - 1, n)

IntMax(n) == BNot(IntMin(n))

\* Build-time configuration: HWY_INTDIV_SCALAR64 and the branch of
\* DivideHighBy the preprocessor selects.
Builds == [scalar64 : BOOLEAN, divh : {"int128", "udiv128", "portable"}]

\* A value the C++ standard or the hardware leaves undefined: no bit pattern.
Undef == << >>

(***************************************************************************)
(* detail:: helpers                                                        *)
(***************************************************************************)

\* detail::IsPow2 on an unsigned value.
IsPow2(x) == ~BIsZero(x) /\ BIsZero(BAnd(x, BSub(x, BOne(Len(x)))))

\* detail::CountTrailingZeros32 / 64 (argument converted to uint32 / uint64).
CountTrailingZeros32(x) == IF BIsZero(x) THEN 32 ELSE BCtz(BZext(x, 4))

CountTrailingZeros64(x) == IF BIsZero(x) THEN 64 ELSE BCtz(BZext(x, 8))

\* detail::LeadingZeroCount32 / 64.
LeadingZeroCount32(x) == IF BIsZero(x) THEN 32 ELSE BClz(BZext(x, 4))

LeadingZeroCount64(x) == IF BIsZero(x) THEN 64 ELSE BClz(BZext(x, 8))

\* The correction loop of the portable DivideHighBy (Knuth D, first digit).
RECURSIVE DivideHighByAdjust(_, _, _, _)
DivideHighByAdjust(qh, rem, dh, dl) ==
    LET Again(rem2) == IF BLeU(BPow2(32, 8), rem2) THEN [qh |-> BSub(qh, BOne(8)), rem |-> rem2]
                       ELSE DivideHighByAdjust(BSub(qh, BOne(8)), rem2, dh, dl)
    IN  IF BLeU(BPow2(32, 8), qh) \/ BLtU(BShl(rem, 32), BMul(qh, BZext(dl, 8), 8))
        THEN Again(BAdd(rem, BZext(dh, 8)))
        ELSE [qh |-> qh, rem |-> rem]

\* The branch without 128-bit integers.  The stages are written innermost
\* first: Reduced takes high % divisor, Norm the normalized operands, Halves
\* the high half of the divisor, First the first quotient digit estimate and
\* Low the corrected first digit.
DivideHighByPortable(high0, divisor) ==
    LET ldz == LeadingZeroCount64(divisor)
        Low(n_norm, d_norm, dh, qh) ==
            BTrunc(BDiv(BSub(BShl(n_norm, 32), BMul(d_norm, qh, 8)), dh), 4) \o SubSeq(BShl(qh, 32), 5, 8)
        First(n_norm, d_norm, dh, qh0) ==
            Low(n_norm, d_norm, dh,
                DivideHighByAdjust(qh0, BSub(n_norm, BMul(qh0, BZext(dh, 8), 8)), dh, BTrunc(d_norm, 4)).qh)
        Halves(n_norm, d_norm, dh) == First(n_norm, d_norm, dh, BDiv(n_norm, dh))
        Norm(n_norm, d_norm) == Halves(n_norm, d_norm, BTrunc(BShr(d_norm, 32), 4))
        Reduced(high) == IF BIsZero(high) THEN BZero(8) ELSE Norm(BShl(high, ldz), BShl(divisor, ldz))
    IN  Reduced(BMod(high0, divisor))

\* detail::DivideHighBy: ((high << 64) / divisor) as uint64_t.  _udiv128
\* faults when the quotient does not fit 64 bits (high >= divisor).
DivideHighBy(high, divisor, build) ==
    CASE build.divh = "int128"  -> BTrunc(BDiv(BShl(BZext(high, 16), 64), divisor), 8)
      [] build.divh = "udiv128" -> IF BLeU(divisor, high) THEN Undef
                                   ELSE BTrunc(BDiv(BShl(BZext(high, 16), 64), divisor), 8)
      [] OTHER                  -> DivideHighByPortable(high, divisor)

(***************************************************************************)
(* The SIMD vocabulary: a vector is a sequence of lanes, every operation   *)
(* acts on each lane independently.                                        *)
(***************************************************************************)

Set(N, x) == AsSeq([i \in 1..N |-> x])

Zero(T, N) == Set(N, BZero(SizeOf(T)))

Add(v, w) == AsSeq([i \in DOMAIN v |-> BAdd(v[i], w[i])])

Sub(v, w) == AsSeq([i \in DOMAIN v |-> BSub(v[i], w[i])])

\* Neg with saturation (SaturatedNeg): the negation of the minimum is the maximum.
SaturatedNeg(v) ==
    AsSeq([i \in DOMAIN v |-> IF v[i] = IntMin(Len(v[i])) THEN IntMax(Len(v[i])) ELSE BNeg(v[i])])

Neg(v) == AsSeq([i \in DOMAIN v |-> BNeg(v[i])])

And(v, w) == AsSeq([i \in DOMAIN v |-> BAnd(v[i], w[i])])

Xor(v, w) == AsSeq([i \in DOMAIN v |-> BXor(v[i], w[i])])

\* Low-half lane multiply.
Mul(v, w) == AsSeq([i \in DOMAIN v |-> BMul(v[i], w[i], Len(v[i]))])

\* High half of the double-width product, signed or unsigned.
MulHigh(T, v, w) ==
    LET n == SizeOf(T)
        ext(x) == IF T.signed THEN BSext(x, 2 * n) ELSE BZext(x, 2 * n)
        prod(i) == BMul(ext(v[i]), ext(w[i]), 2 * n)
    IN  AsSeq([i \in DOMAIN v |-> SubSeq(prod(i), n + 1, 2 * n)])

\* ShiftRight<k>: arithmetic for signed lanes, logical for unsigned lanes.
ShiftRight(T, k, v) == AsSeq([i \in DOMAIN v |-> IF T.signed THEN BSar(v[i], k) ELSE BShr(v[i], k)])

\* PromoteTo the lane type of twice the width.
PromoteTo(T, v) ==
    AsSeq([i \in DOMAIN v |-> IF T.signed THEN BSext(v[i], 2 * SizeOf(T)) ELSE BZext(v[i], 2 * SizeOf(T))])

\* DemoteTo the lane type T of half the width, saturating.
DemoteTo(T, v) ==
    LET n == SizeOf(T)
        fits(x) == IF T.signed THEN BSext(BTrunc(x, n), 2 * n) = BZext(x, 2 * n)
                   ELSE BZext(BTrunc(x, n), 2 * n) = BZext(x, 2 * n)
        sat(x) == IF ~T.signed THEN BOnes(n) ELSE IF BIsNeg(x) THEN IntMin(n) ELSE IntMax(n)
    IN  AsSeq([i \in DOMAIN v |-> IF fits(v[i]) THEN BTrunc(v[i], n) ELSE sat(v[i])])

\* Comparisons produce lane masks.
Ne(v, w) == AsSeq([i \in DOMAIN v |-> v[i] # w[i]])

Lt(T, v, w) == AsSeq([i \in DOMAIN v |-> IF T.signed THEN BLtS(v[i], w[i]) ELSE BLtU(v[i], w[i])])

MaskXor(m1, m2) == AsSeq([i \in DOMAIN m1 |-> m1[i] # m2[i]])

MaskAnd(m1, m2) == AsSeq([i \in DOMAIN m1 |-> m1[i] /\ m2[i]])

IfThenElse(m, yes, no) == AsSeq([i \in DOMAIN m |-> IF m[i] THEN yes[i] ELSE no[i]])

(***************************************************************************)
(* detail::ShiftRightUniform and detail::ScalarDivPerLane                  *)
(***************************************************************************)

\* ShiftRightImmediates shifting every lane type logically.
RECURSIVE ShiftRightImmediatesLogical(_, _, _, _)
ShiftRightImmediatesLogical(T, v, sh, k) ==
    IF k < 1 THEN v
    ELSE ShiftRightImmediatesLogical(T, IF (sh \div k) % 2 = 1 THEN ShiftRight(LaneType(T.bits, FALSE), k, v) ELSE v,
                                     sh, k \div 2)

\* The immediate shifts ShiftRight<k> for the bits k, k/2, .., 1 of sh.
RECURSIVE ShiftRightImmediates(_, _, _, _)
ShiftRightImmediates(T, v, sh, k) ==
    IF k < 1 THEN v
    ELSE ShiftRightImmediates(T, IF (sh \div k) % 2 = 1 THEN ShiftRight(T, k, v) ELSE v, sh, k \div 2)

\* ShiftRightUniform without the clamp of the count.
ShiftRightUniformUnclamped(T, v, sh) ==
    IF sh <= 0 THEN v
    ELSE ShiftRightImmediates(T, v, sh, IF SizeOf(T) = 8 THEN 32 ELSE IF SizeOf(T) >= 4 THEN 16 ELSE 8)

\* Portable fallback: the scalar count decomposed into immediate shifts,
\* from ShiftRight<32> (64-bit lanes) or ShiftRight<16> (32-bit lanes) or
\* ShiftRight<8> down.
ShiftRightUniform(T, v, sh) ==
    IF sh <= 0 THEN v
    ELSE ShiftRightImmediates(T, v, IF sh >= T.bits THEN T.bits - 1 ELSE sh,
                              IF SizeOf(T) = 8 THEN 32 ELSE IF SizeOf(T) >= 4 THEN 16 ELSE 8)

\* C++ a / b on one lane: truncating; division by zero and the signed
\* overflow INT_MIN / -1 are undefined.
ScalarDiv(T, a, b) ==
    LET abs(x) == IF BIsNeg(x) THEN BNeg(x) ELSE x
        Signed(q) == IF BIsNeg(a) # BIsNeg(b) THEN BNeg(q) ELSE q
    IN  IF BIsZero(b) THEN Undef
        ELSE IF ~T.signed THEN BDiv(a, b)
        ELSE IF a = IntMin(SizeOf(T)) /\ b = BOnes(SizeOf(T)) THEN Undef
        ELSE Signed(BDiv(abs(a), abs(b)))

ScalarDivPerLane(T, dividend, divisor) ==
    AsSeq([i \in DOMAIN dividend |-> ScalarDiv(T, dividend[i], divisor)])

(***************************************************************************)
(* ComputeDivisorParams: one routine per width and signedness.             *)
(* A routine returns [outcome |-> "ok", params |-> block], or              *)
(* [outcome |-> "abort"] for a zero divisor.  env.uninit is the content of *)
(* the fields the routine leaves uninitialized; env.negov is what the      *)
(* overflowing negation -INT_MIN does in the build ("wrap" or "trap").     *)
(***************************************************************************)

Abort == [outcome |-> "abort"]

Trap == [outcome |-> "trap"]

Ok(params) == [outcome |-> "ok", params |-> params]

DivisorParamsU(multiplier, shift1, shift2, is_pow2, pow2_shift, divisor) ==
    [multiplier |-> multiplier, shift1 |-> shift1, shift2 |-> shift2,
     is_pow2 |-> is_pow2, pow2_shift |-> pow2_shift, divisor |-> divisor]

DivisorParamsS(multiplier, shift, divisor, is_pow2, pow2_shift) ==
    [multiplier |-> multiplier, shift |-> shift, divisor |-> divisor,
     is_pow2 |-> is_pow2, pow2_shift |-> pow2_shift]

\* The arms after the power-of-two test: divisor 1, then the general case
ComputeDivisorParamsU8General(divisor, env) ==
    LET l == 32 - LeadingZeroCount32(BSub(BZext(divisor, 4), BOne(4)))
        two_l == IF l = 8 THEN BZero(2) ELSE BTrunc(BShl(BOne(4), l), 2)
        m == BAdd(BDiv(BShl(BSub(BZext(two_l, 4), BZext(divisor, 4)), 8), BZext(divisor, 4)), BOne(4))
    IN  IF divisor = BOne(1)
        THEN Ok(DivisorParamsU(BOne(2), 0, 0, FALSE, env.uninit, divisor))
        ELSE Ok(DivisorParamsU(BTrunc(m, 2), 1, l - 1, FALSE, env.uninit, divisor))

\* ComputeDivisorParamsU8 with the zero check replaced by the zero-divisor
\* parameter block of the commented-out code.
ComputeDivisorParamsU8ZeroBlock(divisor, env) ==
    LET l == 32 - LeadingZeroCount32(BSub(BZext(divisor, 4), BOne(4)))
        two_l == IF l = 8 THEN BZero(2) ELSE BTrunc(BShl(BOne(4), l), 2)
        m == BAdd(BDiv(BShl(BSub(BZext(two_l, 4), BZext(divisor, 4)), 8), BZext(divisor, 4)), BOne(4))
    IN  IF BIsZero(divisor) THEN Ok(DivisorParamsU(BZero(2), 0, 0, FALSE, env.uninit, divisor))
        ELSE IF IsPow2(divisor)
        THEN Ok(DivisorParamsU(BOne(2), 0, 0, TRUE, CountTrailingZeros32(divisor), divisor))
        ELSE Ok(DivisorParamsU(BTrunc(m, 2), 1, l - 1, FALSE, env.uninit, divisor))

\* For unsigned 8-bit
ComputeDivisorParamsU8(divisor, env) ==
    IF BIsZero(divisor) THEN Abort
    ELSE IF IsPow2(divisor)
    THEN Ok(DivisorParamsU(BOne(2), 0, 0, TRUE, CountTrailingZeros32(divisor), divisor))
    ELSE ComputeDivisorParamsU8General(divisor, env)

\* ComputeDivisorParamsU16General returning shift2 = l instead of l - 1.
ComputeDivisorParamsU16GeneralShiftL(divisor, env) ==
    LET l == 32 - LeadingZeroCount32(BSub(BZext(divisor, 4), BOne(4)))
        two_l == IF l = 16 THEN BZero(4) ELSE BShl(BOne(4), l)
        m == BTrunc(BAdd(BDiv(BShl(BZext(BSub(two_l, BZext(divisor, 4)), 8), 16), BZext(divisor, 8)),
                         BOne(8)), 4)
    IN  IF divisor = BOne(2)
        THEN Ok(DivisorParamsU(BOne(4), 0, 0, FALSE, env.uninit, divisor))
        ELSE Ok(DivisorParamsU(m, 1, l, FALSE, env.uninit, divisor))

\* The arms after the power-of-two test: divisor 1, then the general case
ComputeDivisorParamsU16General(divisor, env) ==
    LET l == 32 - LeadingZeroCount32(BSub(BZext(divisor, 4), BOne(4)))
        two_l == IF l = 16 THEN BZero(4) ELSE BShl(BOne(4), l)
        m == BTrunc(BAdd(BDiv(BShl(BZext(BSub(two_l, BZext(divisor, 4)), 8), 16), BZext(divisor, 8)),
                         BOne(8)), 4)
    IN  IF divisor = BOne(2)
        THEN Ok(DivisorParamsU(BOne(4), 0, 0, FALSE, env.uninit, divisor))
        ELSE Ok(DivisorParamsU(m, 1, l - 1, FALSE, env.uninit, divisor))

\* For unsigned 16-bit
ComputeDivisorParamsU16(divisor, env) ==
    IF BIsZero(divisor) THEN Abort
    ELSE IF IsPow2(divisor)
    THEN Ok(DivisorParamsU(BOne(4), 0, 0, TRUE, CountTrailingZeros32(divisor), divisor))
    ELSE ComputeDivisorParamsU16General(divisor, env)

\* ComputeDivisorParamsU32General leaving shift1 unassigned on the general arm.
ComputeDivisorParamsU32GeneralShiftUnset(divisor, env) ==
    LET l == 32 - LeadingZeroCount32(BSub(divisor, BOne(4)))
        two_l == IF l = 32 THEN BZero(8) ELSE BShl(BOne(8), l)
        m == BAdd(BDiv(BShl(BSub(two_l, BZext(divisor, 8)), 32), BZext(divisor, 8)), BOne(8))
    IN  IF divisor = BOne(4)
        THEN Ok(DivisorParamsU(BOne(4), 0, 0, FALSE, env.uninit, divisor))
        ELSE Ok(DivisorParamsU(BTrunc(m, 4), env.uninit, l - 1, FALSE, env.uninit, divisor))

\* The arms after the power-of-two test: divisor 1, then the general case
ComputeDivisorParamsU32General(divisor, env) ==
    LET l == 32 - LeadingZeroCount32(BSub(divisor, BOne(4)))
        two_l == IF l = 32 THEN BZero(8) ELSE BShl(BOne(8), l)
        m == BAdd(BDiv(BShl(BSub(two_l, BZext(divisor, 8)), 32), BZext(divisor, 8)), BOne(8))
    IN  IF divisor = BOne(4)
        THEN Ok(DivisorParamsU(BOne(4), 0, 0, FALSE, env.uninit, divisor))
        ELSE Ok(DivisorParamsU(BTrunc(m, 4), 1, l - 1, FALSE, env.uninit, divisor))

\* For unsigned 32-bit
ComputeDivisorParamsU32(divisor, env) ==
    IF BIsZero(divisor) THEN Abort
    ELSE IF IsPow2(divisor)
    THEN Ok(DivisorParamsU(BOne(4), 0, 0, TRUE, CountTrailingZeros32(divisor), divisor))
    ELSE ComputeDivisorParamsU32General(divisor, env)

\* The arms after the power-of-two test: divisor 1, then the general case
ComputeDivisorParamsU64General(divisor, env, build) ==
    LET l == 64 - LeadingZeroCount64(BSub(divisor, BOne(8)))
        two_l_minus_d == IF l < 64 THEN BSub(BShl(BOne(8), l), divisor) ELSE BSub(BZero(8), divisor)
        m == BAdd(DivideHighBy(two_l_minus_d, divisor, build), BOne(8))
    IN  IF divisor = BOne(8)
        THEN Ok(DivisorParamsU(BOne(8), 0, 0, FALSE, env.uninit, divisor))
        ELSE Ok(DivisorParamsU(m, 1, l - 1, FALSE, env.uninit, divisor))

\* For unsigned 64-bit
ComputeDivisorParamsU64(divisor, env, build) ==
    IF BIsZero(divisor) THEN Abort
    ELSE IF IsPow2(divisor)
    THEN Ok(DivisorParamsU(BOne(8), 0, 0, TRUE, CountTrailingZeros64(divisor), divisor))
    ELSE ComputeDivisorParamsU64General(divisor, env, build)

\* The arms after the power-of-two test: magnitude 1, the minimum value,
\* then the general case
ComputeDivisorParamsS8General(divisor, env) ==
    LET abs_d == IF BIsNeg(divisor) THEN BNeg(divisor) ELSE divisor
        sh == 31 - LeadingZeroCount32(BSub(BZext(abs_d, 4), BOne(4)))
        m == BAdd(BDiv(BShl(BFromNat(256, 4), sh), BZext(abs_d, 4)), BOne(4))
    IN  IF abs_d = BOne(1)
        THEN Ok(DivisorParamsS(BOne(2), 0, divisor, FALSE, env.uninit))
        ELSE IF divisor = IntMin(1)
        THEN Ok(DivisorParamsS(BFromNat(129, 2), 6, divisor, FALSE, env.uninit))
        ELSE Ok(DivisorParamsS(BTrunc(m, 2), sh, divisor, FALSE, env.uninit))

\* ComputeDivisorParamsS8 testing the divisor, not its magnitude, for a
\* power of two.
ComputeDivisorParamsS8SignedTest(divisor, env) ==
    LET abs_d == IF BIsNeg(divisor) THEN BNeg(divisor) ELSE divisor
        sh == 31 - LeadingZeroCount32(BSub(BZext(abs_d, 4), BOne(4)))
        m == BAdd(BDiv(BShl(BFromNat(256, 4), sh), BZext(abs_d, 4)), BOne(4))
    IN  IF BIsZero(divisor) THEN Abort
        ELSE IF ~BIsNeg(divisor) /\ IsPow2(divisor)
        THEN Ok(DivisorParamsS(BOne(2), 0, divisor, TRUE, CountTrailingZeros32(abs_d)))
        ELSE IF abs_d = BOne(1)
        THEN Ok(DivisorParamsS(BOne(2), 0, divisor, FALSE, env.uninit))
        ELSE IF divisor = IntMin(1)
        THEN Ok(DivisorParamsS(BFromNat(129, 2), 6, divisor, FALSE, env.uninit))
        ELSE Ok(DivisorParamsS(BTrunc(m, 2), sh, divisor, FALSE, env.uninit))

\* For signed 8-bit (-divisor is computed in int: no overflow)
ComputeDivisorParamsS8(divisor, env) ==
    LET abs_d == IF BIsNeg(divisor) THEN BNeg(divisor) ELSE divisor
    IN  IF BIsZero(divisor) THEN Abort
        ELSE IF IsPow2(abs_d)
        THEN Ok(DivisorParamsS(BOne(2), 0, divisor, TRUE, CountTrailingZeros32(abs_d)))
        ELSE ComputeDivisorParamsS8General(divisor, env)

\* The arms after the power-of-two test: magnitude 1, the minimum value,
\* then the general case
ComputeDivisorParamsS16General(divisor, env) ==
    LET abs_d == IF BIsNeg(divisor) THEN BNeg(divisor) ELSE divisor
        sh == 31 - LeadingZeroCount32(BSub(BZext(abs_d, 4), BOne(4)))
        m == BTrunc(BAdd(BDiv(BShl(BFromNat(65536, 8), sh), BZext(abs_d, 8)), BOne(8)), 4)
    IN  IF abs_d = BOne(2)
        THEN Ok(DivisorParamsS(BOne(4), 0, divisor, FALSE, env.uninit))
        ELSE IF divisor = IntMin(2)
        THEN Ok(DivisorParamsS(BFromNat(32769, 4), 14, divisor, FALSE, env.uninit))
        ELSE Ok(DivisorParamsS(m, sh, divisor, FALSE, env.uninit))

\* For signed 16-bit (-divisor is computed in int: no overflow)
ComputeDivisorParamsS16(divisor, env) ==
    LET abs_d == IF BIsNeg(divisor) THEN BNeg(divisor) ELSE divisor
    IN  IF BIsZero(divisor) THEN Abort
        ELSE IF IsPow2(abs_d)
        THEN Ok(DivisorParamsS(BOne(4), 0, divisor, TRUE, CountTrailingZeros32(abs_d)))
        ELSE ComputeDivisorParamsS16General(divisor, env)

\* ComputeDivisorParamsS32General storing the magnitude of the divisor in
\* the divisor field.
ComputeDivisorParamsS32GeneralMagnitude(divisor, env) ==
    LET abs_d == IF BIsNeg(divisor) THEN BNeg(divisor) ELSE divisor
        sh == 31 - LeadingZeroCount32(BSub(abs_d, BOne(4)))
        m == BAdd(BDiv(BShl(BPow2(32, 8), sh), BZext(abs_d, 8)), BOne(8))
    IN  IF abs_d = BOne(4)
        THEN Ok(DivisorParamsS(BOne(4), 0, abs_d, FALSE, env.uninit))
        ELSE IF divisor = IntMin(4)
        THEN Ok(DivisorParamsS(BAdd(IntMin(4), BOne(4)), 30, abs_d, FALSE, env.uninit))
        ELSE Ok(DivisorParamsS(BTrunc(m, 4), sh, abs_d, FALSE, env.uninit))

\* The arms after the power-of-two test: magnitude 1, the minimum value,
\* then the general case
ComputeDivisorParamsS32General(divisor, env) ==
    LET abs_d == IF BIsNeg(divisor) THEN BNeg(divisor) ELSE divisor
        sh == 31 - LeadingZeroCount32(BSub(abs_d, BOne(4)))
        m == BAdd(BDiv(BShl(BPow2(32, 8), sh), BZext(abs_d, 8)), BOne(8))
    IN  IF abs_d = BOne(4)
        THEN Ok(DivisorParamsS(BOne(4), 0, divisor, FALSE, env.uninit))
        ELSE IF divisor = IntMin(4)
        THEN Ok(DivisorParamsS(BAdd(IntMin(4), BOne(4)), 30, divisor, FALSE, env.uninit))
        ELSE Ok(DivisorParamsS(BTrunc(m, 4), sh, divisor, FALSE, env.uninit))

\* For signed 32-bit (-divisor overflows for INT_MIN)
ComputeDivisorParamsS32(divisor, env) ==
    LET abs_d == IF BIsNeg(divisor) THEN BNeg(divisor) ELSE divisor
    IN  IF BIsZero(divisor) THEN Abort
        ELSE IF divisor = IntMin(4) /\ env.negov = "trap" THEN Trap
        ELSE IF IsPow2(abs_d)
        THEN Ok(DivisorParamsS(BOne(4), 0, divisor, TRUE, CountTrailingZeros32(abs_d)))
        ELSE ComputeDivisorParamsS32General(divisor, env)

\* The arms after the power-of-two test: magnitude 1, the minimum value,
\* then the general case
ComputeDivisorParamsS64General(divisor, env, build) ==
    LET abs_d == IF BIsNeg(divisor) THEN BNeg(divisor) ELSE divisor
        sh == 63 - LeadingZeroCount64(BSub(abs_d, BOne(8)))
        m == BAdd(DivideHighBy(BShl(BOne(8), sh), abs_d, build), BOne(8))
    IN  IF abs_d = BOne(8)
        THEN Ok(DivisorParamsS(BOne(8), 0, divisor, FALSE, env.uninit))
        ELSE IF divisor = IntMin(8)
        THEN Ok(DivisorParamsS(BAdd(IntMin(8), BOne(8)), 62, divisor, FALSE, env.uninit))
        ELSE Ok(DivisorParamsS(m, sh, divisor, FALSE, env.uninit))

\* For signed 64-bit (-divisor overflows for INT_MIN)
ComputeDivisorParamsS64(divisor, env, build) ==
    LET abs_d == IF BIsNeg(divisor) THEN BNeg(divisor) ELSE divisor
    IN  IF BIsZero(divisor) THEN Abort
        ELSE IF divisor = IntMin(8) /\ env.negov = "trap" THEN Trap
        ELSE IF IsPow2(abs_d)
        THEN Ok(DivisorParamsS(BOne(8), 0, divisor, TRUE, CountTrailingZeros64(abs_d)))
        ELSE ComputeDivisorParamsS64General(divisor, env, build)

\* The derivation with the power-of-two arm suppressed.
ComputeDivisorParamsGeneral(T, divisor, env, build) ==
    CASE ~T.signed /\ T.bits = 8  -> ComputeDivisorParamsU8General(divisor, env)
      [] ~T.signed /\ T.bits = 16 -> ComputeDivisorParamsU16General(divisor, env)
      [] ~T.signed /\ T.bits = 32 -> ComputeDivisorParamsU32General(divisor, env)
      [] ~T.signed /\ T.bits = 64 -> ComputeDivisorParamsU64General(divisor, env, build)
      [] T.signed /\ T.bits = 8   -> ComputeDivisorParamsS8General(divisor, env)
      [] T.signed /\ T.bits = 16  -> ComputeDivisorParamsS16General(divisor, env)
      [] T.signed /\ T.bits = 32  -> ComputeDivisorParamsS32General(divisor, env)
      [] T.signed /\ T.bits = 64  -> ComputeDivisorParamsS64General(divisor, env, build)

\* Overload resolution on the lane type (the forwarders of intdiv.h).
ComputeDivisorParams(T, divisor, env, build) ==
    CASE ~T.signed /\ T.bits = 8  -> ComputeDivisorParamsU8(divisor, env)
      [] ~T.signed /\ T.bits = 16 -> ComputeDivisorParamsU16(divisor, env)
      [] ~T.signed /\ T.bits = 32 -> ComputeDivisorParamsU32(divisor, env)
      [] ~T.signed /\ T.bits = 64 -> ComputeDivisorParamsU64(divisor, env, build)
      [] T.signed /\ T.bits = 8   -> ComputeDivisorParamsS8(divisor, env)
      [] T.signed /\ T.bits = 16  -> ComputeDivisorParamsS16(divisor, env)
      [] T.signed /\ T.bits = 32  -> ComputeDivisorParamsS32(divisor, env)
      [] T.signed /\ T.bits = 64  -> ComputeDivisorParamsS64(divisor, env, build)

(***************************************************************************)
(* IntDiv: truncating division by precomputed parameters                   *)
(***************************************************************************)

\* IntDivU testing the division-by-one exit before the power-of-two exit.
IntDivUUnitFirst(T, dividend, params, build) ==
    LET N == Len(dividend)
        t1 == IF SizeOf(T) <= 2
              THEN DemoteTo(T, ShiftRight(LaneType(2 * T.bits, FALSE), T.bits,
                                          Mul(PromoteTo(T, dividend), Set(N, params.multiplier))))
              ELSE MulHigh(T, dividend, Set(N, params.multiplier))
        Quotient(t) ==
            ShiftRightUniform(T, Add(t, ShiftRightUniform(T, Sub(dividend, t), params.shift1)), params.shift2)
    IN  IF params.shift1 = 0 /\ params.shift2 = 0 /\ params.multiplier = BOne(MulTypeSize(T))
        THEN dividend
        ELSE IF params.is_pow2 THEN ShiftRightUniform(T, dividend, params.pow2_shift)
        ELSE IF build.scalar64 /\ SizeOf(T) = 8
        THEN ScalarDivPerLane(T, dividend, params.divisor)
        ELSE Quotient(t1)

\* t1 of the unsigned main path.  8- and 16-bit lanes: promote, multiply,
\* take the high half, demote; 32- and 64-bit lanes: MulHigh
IntDivUHigh(T, dividend, params) ==
    IF SizeOf(T) <= 2
    THEN DemoteTo(T, ShiftRight(LaneType(2 * T.bits, FALSE), T.bits,
                                Mul(PromoteTo(T, dividend), Set(Len(dividend), params.multiplier))))
    ELSE MulHigh(T, dividend, Set(Len(dividend), params.multiplier))

\* Division for unsigned types
IntDivU(T, dividend, params, build) ==
    LET N == Len(dividend)
        t1 == IntDivUHigh(T, dividend, params)
        \* q = (t1 + ((dividend - t1) >> shift1)) >> shift2
        Quotient(t) ==
            ShiftRightUniform(T, Add(t, ShiftRightUniform(T, Sub(dividend, t), params.shift1)), params.shift2)
    IN  IF params.is_pow2 THEN ShiftRightUniform(T, dividend, params.pow2_shift)
        ELSE IF params.shift1 = 0 /\ params.shift2 = 0 /\ params.multiplier = BOne(MulTypeSize(T))
        THEN dividend
        ELSE IF build.scalar64 /\ SizeOf(T) = 8
        THEN ScalarDivPerLane(T, dividend, params.divisor)
        ELSE Quotient(t1)

\* IntDivS without the negation of the quotient for a negative divisor on
\* the power-of-two and the +/-1 exits.
IntDivSUnsignedExits(T, dividend, params, build) ==
    LET N == Len(dividend)
        n == SizeOf(T)
        kSignBit == T.bits - 1
        mask_val == IF params.pow2_shift >= 0 /\ params.pow2_shift < T.bits
                    THEN BSub(BShl(BOne(n), params.pow2_shift), BOne(n))
                    ELSE BOnes(n)
        bias == And(ShiftRight(T, kSignBit, dividend), Set(N, mask_val))
        high == IF n <= 2
                THEN DemoteTo(T, ShiftRight(LaneType(2 * T.bits, TRUE), T.bits,
                                            Mul(PromoteTo(T, dividend), Set(N, params.multiplier))))
                ELSE MulHigh(T, dividend, Set(N, params.multiplier))
        q2 == Sub(ShiftRightUniform(T, Add(dividend, high), params.shift), ShiftRight(T, kSignBit, dividend))
        Signed(q) == IF BIsNeg(params.divisor) THEN Sub(Xor(q, Set(N, BOnes(n))), Set(N, BOnes(n))) ELSE q
    IN  IF params.is_pow2 THEN ShiftRightUniform(T, Add(dividend, bias), params.pow2_shift)
        ELSE IF params.shift = 0 /\ params.multiplier = BOne(MulTypeSize(T))
        THEN dividend
        ELSE IF build.scalar64 /\ n = 8
        THEN ScalarDivPerLane(T, dividend, params.divisor)
        ELSE Signed(q2)

\* IntDivS taking the 64-bit scalar fallback before the power-of-two and the
\* +/-1 exits.
IntDivSScalarFirst(T, dividend, params, build) ==
    LET N == Len(dividend)
        n == SizeOf(T)
        neg_divisor == BIsNeg(params.divisor)
        kSignBit == T.bits - 1
        mask_val == IF params.pow2_shift >= 0 /\ params.pow2_shift < T.bits
                    THEN BSub(BShl(BOne(n), params.pow2_shift), BOne(n))
                    ELSE BOnes(n)
        bias == And(ShiftRight(T, kSignBit, dividend), Set(N, mask_val))
        Negated(q) == IF neg_divisor THEN Neg(q) ELSE q
        high == IF n <= 2
                THEN DemoteTo(T, ShiftRight(LaneType(2 * T.bits, TRUE), T.bits,
                                            Mul(PromoteTo(T, dividend), Set(N, params.multiplier))))
                ELSE MulHigh(T, dividend, Set(N, params.multiplier))
        q2 == Sub(ShiftRightUniform(T, Add(dividend, high), params.shift), ShiftRight(T, kSignBit, dividend))
        Signed(q) == IF neg_divisor THEN Sub(Xor(q, Set(N, BOnes(n))), Set(N, BOnes(n))) ELSE q
    IN  IF build.scalar64 /\ n = 8
        THEN ScalarDivPerLane(T, dividend, params.divisor)
        ELSE IF params.is_pow2 THEN Negated(ShiftRightUniform(T, Add(dividend, bias), params.pow2_shift))
        ELSE IF params.shift = 0 /\ params.multiplier = BOne(MulTypeSize(T))
        THEN Negated(dividend)
        ELSE Signed(q2)

\* IntDivSBias adding 2^k - 1 to every lane, whatever its sign.
IntDivSBiasUnsigned(T, dividend, params) ==
    LET n == SizeOf(T)
        mask_val == IF params.pow2_shift >= 0 /\ params.pow2_shift < T.bits
                    THEN BSub(BShl(BOne(n), params.pow2_shift), BOne(n))
                    ELSE BOnes(n)
    IN  Set(Len(dividend), mask_val)

\* The bias of the signed power-of-two exit:
\* bias = (dividend < 0) ? (2^k - 1) : 0
IntDivSBias(T, dividend, params) ==
    LET n == SizeOf(T)
        mask_val == IF params.pow2_shift >= 0 /\ params.pow2_shift < T.bits
                    THEN BSub(BShl(BOne(n), params.pow2_shift), BOne(n))
                    ELSE BOnes(n)
    IN  And(ShiftRight(T, T.bits - 1, dividend), Set(Len(dividend), mask_val))

\* The high half added to the dividend on the signed main path: promote,
\* multiply, ShiftRight<W>, demote for 8- and 16-bit lanes, MulHigh for 32-
\* and 64-bit lanes.
IntDivSHigh(T, dividend, params) ==
    IF SizeOf(T) <= 2
    THEN DemoteTo(T, ShiftRight(LaneType(2 * T.bits, TRUE), T.bits,
                                Mul(PromoteTo(T, dividend), Set(Len(dividend), params.multiplier))))
    ELSE MulHigh(T, dividend, Set(Len(dividend), params.multiplier))

\* IntDivS whose divisor-sign step is the XOR with all-ones alone, without
\* the subtraction.
IntDivSComplement(T, dividend, params, build) ==
    LET N == Len(dividend)
        n == SizeOf(T)
        neg_divisor == BIsNeg(params.divisor)
        kSignBit == T.bits - 1
        \* power of two: bias trick
        bias == IntDivSBias(T, dividend, params)
        Negated(q) == IF neg_divisor THEN Neg(q) ELSE q
        \* main path
        high == IntDivSHigh(T, dividend, params)
        q2 == Sub(ShiftRightUniform(T, Add(dividend, high), params.shift), ShiftRight(T, kSignBit, dividend))
        \* (q ^ -1) - (-1) for a negative divisor
        Signed(q) == IF neg_divisor THEN Xor(q, Set(N, BOnes(n))) ELSE q
    IN  IF params.is_pow2 THEN Negated(ShiftRightUniform(T, Add(dividend, bias), params.pow2_shift))
        ELSE IF params.shift = 0 /\ params.multiplier = BOne(MulTypeSize(T))
        THEN Negated(dividend)
        ELSE IF build.scalar64 /\ n = 8
        THEN ScalarDivPerLane(T, dividend, params.divisor)
        ELSE Signed(q2)

\* Division for signed types (truncating division)
IntDivS(T, dividend, params, build) ==
    LET N == Len(dividend)
        n == SizeOf(T)
        neg_divisor == BIsNeg(params.divisor)
        kSignBit == T.bits - 1
        \* power of two: bias trick
        bias == IntDivSBias(T, dividend, params)
        Negated(q) == IF neg_divisor THEN Neg(q) ELSE q
        \* main path
        high == IntDivSHigh(T, dividend, params)
        q2 == Sub(ShiftRightUniform(T, Add(dividend, high), params.shift), ShiftRight(T, kSignBit, dividend))
        \* (q ^ -1) - (-1) for a negative divisor
        Signed(q) == IF neg_divisor THEN Sub(Xor(q, Set(N, BOnes(n))), Set(N, BOnes(n))) ELSE q
    IN  IF params.is_pow2 THEN Negated(ShiftRightUniform(T, Add(dividend, bias), params.pow2_shift))
        ELSE IF params.shift = 0 /\ params.multiplier = BOne(MulTypeSize(T))
        THEN Negated(dividend)
        ELSE IF build.scalar64 /\ n = 8
        THEN ScalarDivPerLane(T, dividend, params.divisor)
        ELSE Signed(q2)

\* Overload resolution on the lane type (the forwarders of intdiv.h).
IntDiv(T, dividend, params, build) ==
    IF T.signed THEN IntDivS(T, dividend, params, build) ELSE IntDivU(T, dividend, params, build)

(***************************************************************************)
(* IntDivFloor: floor division                                             *)
(***************************************************************************)

\* Floor division for signed types
IntDivFloorS(T, dividend, params, build) ==
    LET N == Len(dividend)
        divisor == Set(N, params.divisor)
        \* signs differ
        sdiff == MaskXor(Lt(T, dividend, Zero(T, N)), Lt(T, divisor, Zero(T, N)))
        \* subtract one where the remainder is non-zero and the signs differ
        Floor(q) == Sub(q, IfThenElse(MaskAnd(Ne(dividend, Mul(q, divisor)), sdiff),
                                      Set(N, BOne(SizeOf(T))), Zero(T, N)))
    IN  Floor(IntDivS(T, dividend, params, build))

\* IntDivFloorU applying the signed floor correction, lanes read as signed.
IntDivFloorUSignedFloor(T, dividend, params, build) ==
    IntDivFloorS(LaneType(T.bits, TRUE), dividend, params, build)

\* For unsigned types, floor division is the same as regular division
IntDivFloorU(T, dividend, params, build) == IntDivU(T, dividend, params, build)

IntDivFloor(T, dividend, params, build) ==
    IF T.signed THEN IntDivFloorS(T, dividend, params, build)
    ELSE IntDivFloorU(T, dividend, params, build)

(***************************************************************************)
(* Convenience functions.  They return [outcome |-> "ok", value |-> v],    *)
(* or the outcome of a failed parameter derivation.                        *)
(***************************************************************************)

Value(v) == [outcome |-> "ok", value |-> v]

\* DivideByScalarU counting the trailing zeros of the divisor's low 32 bits
\* whatever the lane width.
DivideByScalarUCtz32(T, dividend, divisor, env, build) ==
    LET Divide(r) == IF r.outcome # "ok" THEN r ELSE Value(IntDivU(T, dividend, r.params, build))
    IN  IF BIsZero(divisor) THEN Abort
        ELSE IF IsPow2(divisor)
        THEN Value(ShiftRightUniform(T, dividend, CountTrailingZeros32(BTrunc(BZext(divisor, 8), 4))))
        ELSE Divide(ComputeDivisorParams(T, divisor, env, build))

DivideByScalarU(T, dividend, divisor, env, build) ==
    LET ctz == IF SizeOf(T) = 8 THEN CountTrailingZeros64(BZext(divisor, 8))
               ELSE CountTrailingZeros32(BZext(divisor, 4))
        Divide(r) == IF r.outcome # "ok" THEN r ELSE Value(IntDivU(T, dividend, r.params, build))
    IN  IF BIsZero(divisor) THEN Abort
        ELSE IF IsPow2(divisor) THEN Value(ShiftRightUniform(T, dividend, ctz))
        ELSE Divide(ComputeDivisorParams(T, divisor, env, build))

DivideByScalarS(T, dividend, divisor, env, build) ==
    LET Divide(r) == IF r.outcome # "ok" THEN r ELSE Value(IntDivS(T, dividend, r.params, build))
    IN  IF BIsZero(divisor) THEN Abort
        ELSE Divide(ComputeDivisorParams(T, divisor, env, build))

DivideByScalar(T, dividend, divisor, env, build) ==
    IF T.signed THEN DivideByScalarS(T, dividend, divisor, env, build)
    ELSE DivideByScalarU(T, dividend, divisor, env, build)

FloorDivideByScalarS(T, dividend, divisor, env, build) ==
    LET Divide(r) == IF r.outcome # "ok" THEN r ELSE Value(IntDivFloorS(T, dividend, r.params, build))
    IN  IF BIsZero(divisor) THEN Abort
        ELSE Divide(ComputeDivisorParams(T, divisor, env, build))

\* Same for unsigned
FloorDivideByScalarU(T, dividend, divisor, env, build) == DivideByScalarU(T, dividend, divisor, env, build)

FloorDivideByScalar(T, dividend, divisor, env, build) ==
    IF T.signed THEN FloorDivideByScalarS(T, dividend, divisor, env, build)
    ELSE FloorDivideByScalarU(T, dividend, divisor, env, build)

(***************************************************************************)
(* Array functions.  array is the buffer, count the number of elements to  *)
(* divide, N the lanes of a full vector (Lanes(ScalableTag<T>)).           *)
(***************************************************************************)

LoadU(array, i, N) == SubSeq(array, i + 1, i + N)

StoreU(v, array, i) ==
    AsSeq([k \in 1..Len(array) |-> IF k > i /\ k <= i + Len(v) THEN v[k - i] ELSE array[k]])

\* The first num lanes come from memory, the other lanes are zero.
LoadN(T, array, i, N, num) ==
    AsSeq([k \in 1..N |-> IF k <= num THEN array[i + k] ELSE BZero(SizeOf(T))])

\* Only the first num lanes are written.
StoreN(v, array, i, num) ==
    AsSeq([k \in 1..Len(array) |-> IF k > i /\ k <= i + num /\ k <= i + Len(v) THEN v[k - i] ELSE array[k]])

\* DivideArrayLoop without the remainder handling.
RECURSIVE DivideArrayLoopWholeVectors(_, _, _, _, _, _, _)
DivideArrayLoopWholeVectors(T, array, count, N, i, params, build) ==
    IF i + N <= count
    THEN DivideArrayLoopWholeVectors(T, StoreU(IntDiv(T, LoadU(array, i, N), params, build), array, i),
                                     count, N, i + N, params, build)
    ELSE array

\* DivideArrayLoop whose remainder step redoes the last whole vector of the
\* buffer when the buffer holds one.
RECURSIVE DivideArrayLoopOverlappingTail(_, _, _, _, _, _, _)
DivideArrayLoopOverlappingTail(T, array, count, N, i, params, build) ==
    IF i + N <= count
    THEN DivideArrayLoopOverlappingTail(T, StoreU(IntDiv(T, LoadU(array, i, N), params, build), array, i),
                                        count, N, i + N, params, build)
    ELSE IF i < count /\ count >= N
    THEN StoreU(IntDiv(T, LoadU(array, count - N, N), params, build), array, count - N)
    ELSE IF i < count
    THEN StoreN(IntDiv(T, LoadN(T, array, i, N, count - i), params, build), array, i, count - i)
    ELSE array

\* The number of stores to each element made by the loop over whole vectors
\* and the remainder step, from index i on: StoreU writes the N elements
\* from i, StoreN the count - i elements from i.
RECURSIVE ArrayStores(_, _, _, _)
ArrayStores(count, N, i, stores) ==
    IF i + N <= count
    THEN ArrayStores(count, N, i + N,
                     [k \in DOMAIN stores |-> IF k > i /\ k <= i + N THEN stores[k] + 1 ELSE stores[k]])
    ELSE IF i < count
    THEN [k \in DOMAIN stores |-> IF k > i /\ k <= count THEN stores[k] + 1 ELSE stores[k]]
    ELSE stores

\* The loop over whole vectors and the remainder, from index i on.
RECURSIVE DivideArrayLoop(_, _, _, _, _, _, _)
DivideArrayLoop(T, array, count, N, i, params, build) ==
    IF i + N <= count
    THEN DivideArrayLoop(T, StoreU(IntDiv(T, LoadU(array, i, N), params, build), array, i),
                         count, N, i + N, params, build)
    ELSE IF i < count
    THEN StoreN(IntDiv(T, LoadN(T, array, i, N, count - i), params, build), array, i, count - i)
    ELSE array

\* The loop and the remainder of the signed FloorDivideArrayByScalar.
RECURSIVE FloorDivideArrayLoop(_, _, _, _, _, _, _)
FloorDivideArrayLoop(T, array, count, N, i, params, build) ==
    IF i + N <= count
    THEN FloorDivideArrayLoop(T, StoreU(IntDivFloorS(T, LoadU(array, i, N), params, build), array, i),
                              count, N, i + N, params, build)
    ELSE IF i < count
    THEN StoreN(IntDivFloorS(T, LoadN(T, array, i, N, count - i), params, build), array, i, count - i)
    ELSE array

DivideArrayByScalarU(T, array, count, N, divisor, env, build) ==
    LET Divide(r) == IF r.outcome # "ok" THEN r
                     ELSE Value(DivideArrayLoop(T, array, count, N, 0, r.params, build))
    IN  IF BIsZero(divisor) THEN Abort
        ELSE Divide(ComputeDivisorParams(T, divisor, env, build))

DivideArrayByScalarS(T, array, count, N, divisor, env, build) ==
    LET Divide(r) == IF r.outcome # "ok" THEN r
                     ELSE Value(DivideArrayLoop(T, array, count, N, 0, r.params, build))
    IN  IF BIsZero(divisor) THEN Abort
        ELSE Divide(ComputeDivisorParams(T, divisor, env, build))

DivideArrayByScalar(T, array, count, N, divisor, env, build) ==
    IF T.signed THEN DivideArrayByScalarS(T, array, count, N, divisor, env, build)
    ELSE DivideArrayByScalarU(T, array, count, N, divisor, env, build)

FloorDivideArrayByScalarS(T, array, count, N, divisor, env, build) ==
    LET Divide(r) == IF r.outcome # "ok" THEN r
                     ELSE Value(FloorDivideArrayLoop(T, array, count, N, 0, r.params, build))
    IN  IF BIsZero(divisor) THEN Abort
        ELSE Divide(ComputeDivisorParams(T, divisor, env, build))

\* Same for unsigned
FloorDivideArrayByScalarU(T, array, count, N, divisor, env, build) ==
    DivideArrayByScalarU(T, array, count, N, divisor, env, build)

FloorDivideArrayByScalar(T, array, count, N, divisor, env, build) ==
    IF T.signed THEN FloorDivideArrayByScalarS(T, array, count, N, divisor, env, build)
    ELSE FloorDivideArrayByScalarU(T, array, count, N, divisor, env, build)

(***************************************************************************)
(* Bounds and the inputs drawn within them                                 *)
(***************************************************************************)

\* Scalars lie within MaxOff of a power of two or of its negation.
MaxOff == 1

\* Lanes of a vector; the array functions run with 1..MaxLanes lanes.
MaxLanes == 2

\* Largest element count handed to the array functions.
MaxCount == 3

\* What an uninitialized int field may hold.
UninitInts == {0, 200}

BFromInt(j, n) == IF j >= 0 THEN BFromNat(j, n) ELSE BNeg(BFromNat(0 - j, n))

Exponents(T) == {0, 1, 3, T.bits \div 2, T.bits - 1}

Magnitudes(T) ==
    {BAdd(BPow2(k, SizeOf(T)), BFromInt(j, SizeOf(T))) : k \in Exponents(T), j \in (0 - MaxOff)..MaxOff}

Scalars(T) == Magnitudes(T) \cup {BNeg(x) : x \in Magnitudes(T)}

SmallScalars(T) == {BFromInt(j, SizeOf(T)) : j \in (0 - MaxOff - 2)..(MaxOff + 2)}

\* Lanes a, -a, a, ...
Alternating(N, a) == AsSeq([i \in 1..N |-> IF i % 2 = 1 THEN a ELSE BNeg(a)])

\* Lanes first, first + 1, ... (wrapping)
Iota(T, N, first) == AsSeq([i \in 1..N |-> BAdd(first, BFromNat(i - 1, SizeOf(T)))])

Vectors(T) == {Alternating(MaxLanes, a) : a \in Magnitudes(T)}

Firsts(T) == {IntMax(SizeOf(T)), BOnes(SizeOf(T))}

IotaVectors(T) == {Iota(T, MaxLanes, a) : a \in Firsts(T)}

\* Buffers are one element longer than the largest count.
Arrays(T) == {Iota(T, MaxCount + 1, a) : a \in Firsts(T)}

\* -divisor overflows in ComputeDivisorParams (int32_t and int64_t only:
\* narrower types are promoted to int).
NegOverflows(T, divisor) == T.signed /\ T.bits >= 32 /\ divisor = IntMin(SizeOf(T))

Envs(T, divisor) ==
    [uninit : UninitInts, negov : IF NegOverflows(T, divisor) THEN {"wrap", "trap"} ELSE {"wrap"}]

\* The high words handed to DivideHighBy: 1, 2, 2^63, 2^64 - 1.
Highs == {BOne(8), BFromNat(2, 8), IntMin(8), BOnes(8)}

\* Shift counts around 0, around the powers of two and around the lane width.
ShiftCounts(T) == {e + j : e \in Exponents(T) \cup {T.bits}, j \in (0 - MaxOff)..MaxOff}

\* The build flags a lane type's code depends on.
BuildsOf(T) == {b \in Builds : T.bits < 64 => (~b.scalar64 /\ b.divh = "int128")}

(***************************************************************************)
(* The program: a caller that derives parameters and divides               *)
(***************************************************************************)

VARIABLES T, build, pc, op, divisor, params, dividend, result, array0, array, count, lanes, sh

vars == <<T, build, pc, op, divisor, params, dividend, result, array0, array, count, lanes, sh>>

NoParams == [none |-> TRUE]

PcAfter(r) == IF r.outcome = "ok" THEN "done" ELSE IF r.outcome = "abort" THEN "aborted" ELSE "trapped"

Init ==
    /\ T \in LaneTypes
    /\ build \in BuildsOf(T)
    /\ pc = "idle"
    /\ op = "none"
    /\ divisor = << >>
    /\ params = NoParams
    /\ dividend = << >>
    /\ result = << >>
    /\ array0 = << >>
    /\ array = << >>
    /\ count = 0
    /\ lanes = MaxLanes
    /\ sh = 0

CallComputeDivisorParams ==
    /\ pc = "idle"
    /\ \E d \in Scalars(T) : \E env \in Envs(T, d) :
       \E r \in {ComputeDivisorParams(T, d, env, build)} :
         /\ divisor' = d
         /\ pc' = IF r.outcome = "ok" THEN "params" ELSE PcAfter(r)
         /\ params' = IF r.outcome = "ok" THEN r.params ELSE params
    /\ op' = "ComputeDivisorParams"
    /\ UNCHANGED <<T, build, dividend, result, array0, array, count, lanes, sh>>

CallIntDiv ==
    /\ pc = "params"
    /\ \E v \in Vectors(T) :
         /\ dividend' = v
         /\ result' = IntDiv(T, v, params, build)
    /\ pc' = "done"
    /\ op' = "IntDiv"
    /\ UNCHANGED <<T, build, divisor, params, array0, array, count, lanes, sh>>

CallIntDivFloor ==
    /\ pc = "params"
    /\ \E v \in Vectors(T) :
         /\ dividend' = v
         /\ result' = IntDivFloor(T, v, params, build)
    /\ pc' = "done"
    /\ op' = "IntDivFloor"
    /\ UNCHANGED <<T, build, divisor, params, array0, array, count, lanes, sh>>

CallDivideByScalar ==
    /\ pc = "idle"
    /\ \E d \in Scalars(T) : \E env \in Envs(T, d) : \E v \in IotaVectors(T) :
       \E r \in {DivideByScalar(T, v, d, env, build)} :
         /\ divisor' = d
         /\ dividend' = v
         /\ pc' = PcAfter(r)
         /\ result' = IF r.outcome = "ok" THEN r.value ELSE result
    /\ op' = "DivideByScalar"
    /\ UNCHANGED <<T, build, params, array0, array, count, lanes, sh>>

CallFloorDivideByScalar ==
    /\ pc = "idle"
    /\ \E d \in Scalars(T) : \E env \in Envs(T, d) : \E v \in IotaVectors(T) :
       \E r \in {FloorDivideByScalar(T, v, d, env, build)} :
         /\ divisor' = d
         /\ dividend' = v
         /\ pc' = PcAfter(r)
         /\ result' = IF r.outcome = "ok" THEN r.value ELSE result
    /\ op' = "FloorDivideByScalar"
    /\ UNCHANGED <<T, build, params, array0, array, count, lanes, sh>>

CallDivideArrayByScalar ==
    /\ pc = "idle"
    /\ \E d \in SmallScalars(T) : \E env \in Envs(T, d) :
       \E a \in Arrays(T) : \E c \in 0..MaxCount : \E N \in 1..MaxLanes :
       \E r \in {DivideArrayByScalar(T, a, c, N, d, env, build)} :
         /\ divisor' = d
         /\ array0' = a
         /\ count' = c
         /\ lanes' = N
         /\ pc' = PcAfter(r)
         /\ array' = IF r.outcome = "ok" THEN r.value ELSE a
    /\ op' = "DivideArrayByScalar"
    /\ UNCHANGED <<T, build, params, dividend, result, sh>>

CallFloorDivideArrayByScalar ==
    /\ pc = "idle"
    /\ \E d \in SmallScalars(T) : \E env \in Envs(T, d) :
       \E a \in Arrays(T) : \E c \in 0..MaxCount : \E N \in 1..MaxLanes :
       \E r \in {FloorDivideArrayByScalar(T, a, c, N, d, env, build)} :
         /\ divisor' = d
         /\ array0' = a
         /\ count' = c
         /\ lanes' = N
         /\ pc' = PcAfter(r)
         /\ array' = IF r.outcome = "ok" THEN r.value ELSE a
    /\ op' = "FloorDivideArrayByScalar"
    /\ UNCHANGED <<T, build, params, dividend, result, sh>>

Next ==
    \/ CallComputeDivisorParams
    \/ CallIntDiv
    \/ CallIntDivFloor
    \/ CallDivideByScalar
    \/ CallFloorDivideByScalar
    \/ CallDivideArrayByScalar
    \/ CallFloorDivideArrayByScalar

Spec == Init /\ [][Next]_vars

\* The helpers of namespace detail, called on their own.
CallDivideHighBy ==
    /\ pc = "idle"
    /\ T = LaneType(64, FALSE)
    /\ \E h \in Highs : \E d \in Scalars(T) \ {BZero(8)} :
       \E r \in {DivideHighBy(h, d, build)} :
         /\ dividend' = <<h>>
         /\ divisor' = d
         /\ pc' = IF r = Undef THEN "faulted" ELSE "done"
         /\ result' = IF r = Undef THEN result ELSE <<r>>
    /\ op' = "DivideHighBy"
    /\ UNCHANGED <<T, build, params, array0, array, count, lanes, sh>>

CallShiftRightUniform ==
    /\ pc = "idle"
    /\ \E v \in Vectors(T) : \E s \in ShiftCounts(T) :
         /\ dividend' = v
         /\ sh' = s
         /\ result' = ShiftRightUniform(T, v, s)
    /\ pc' = "done"
    /\ op' = "ShiftRightUniform"
    /\ UNCHANGED <<T, build, divisor, params, array0, array, count, lanes>>

NextHelpers == CallDivideHighBy \/ CallShiftRightUniform

SpecHelpers == Init /\ [][NextHelpers]_vars

\* Parameter derivation alone.
NextParams == CallComputeDivisorParams

SpecParams == Init /\ [][NextParams]_vars

\* Parameter derivation followed by division with the derived parameters.
NextDiv == CallComputeDivisorParams \/ CallIntDiv \/ CallIntDivFloor

SpecDiv == Init /\ [][NextDiv]_vars

\* The convenience functions on vectors.
NextScalar == CallDivideByScalar \/ CallFloorDivideByScalar

SpecScalar == Init /\ [][NextScalar]_vars

\* The array functions.
NextArray == CallDivideArrayByScalar \/ CallFloorDivideArrayByScalar

SpecArray == Init /\ [][NextArray]_vars

(***************************************************************************)
(* Reference quotients, stated by their defining inequalities in exact     *)
(* arithmetic (operands widened so that no product or sum wraps)           *)
(***************************************************************************)

Wide(x) == 2 * Len(x) + 1

\* |x| in m limbs
Magnitude(x, m) == IF BIsNeg(x) THEN BNeg(BSext(x, m)) ELSE BZext(x, m)

\* q = floor(a / d) for unsigned a, d, q:  q * d <= a < q * d + d
IsQuotientU(a, d, q) ==
    LET m == Wide(a)
        qd == BMul(BZext(q, m), BZext(d, m), m)
    IN  BLeU(qd, BZext(a, m)) /\ BLtU(BZext(a, m), BAdd(qd, BZext(d, m)))

\* q = a / d rounded toward zero for signed a, d, q:
\* |q| * |d| <= |a| < |q| * |d| + |d|, and q is zero or has the sign of a * d
IsQuotientTrunc(a, d, q) ==
    LET m == Wide(a)
        qd == BMul(Magnitude(q, m), Magnitude(d, m), m)
    IN  /\ BLeU(qd, Magnitude(a, m))
        /\ BLtU(Magnitude(a, m), BAdd(qd, Magnitude(d, m)))
        /\ BIsZero(q) \/ (BIsNeg(q) <=> (BIsNeg(a) # BIsNeg(d)))

\* q = floor(a / d) over the rationals for signed a, d, q:
\* q * d <= a < q * d + d for d > 0, and q * d + d < a <= q * d for d < 0
IsQuotientFloor(a, d, q) ==
    LET m == Wide(a)
        A == BSext(a, m)
        D == BSext(d, m)
        qd == BMul(BSext(q, m), D, m)
    IN  IF BIsNeg(d)
        THEN BLtS(BAdd(qd, D), A) /\ ~BLtS(qd, A)
        ELSE ~BLtS(A, qd) /\ BLtS(A, BAdd(qd, D))

MinusOne(Ty) == BOnes(SizeOf(Ty))

\* The pair (INT_MIN, -1)
IsMinByMinusOne(Ty, a, d) == a = IntMin(SizeOf(Ty)) /\ d = MinusOne(Ty)

(***************************************************************************)
(* Properties                                                              *)
(***************************************************************************)

\* C1: for every width, every unsigned dividend a and every non-zero
\* unsigned divisor d, IntDiv(a, ComputeDivisorParams(d)) is floor(a / d).
C1_UnsignedQuotient ==
    (op = "IntDiv" /\ ~T.signed) =>
        \A i \in DOMAIN dividend : IsQuotientU(dividend[i], divisor, result[i])

\* C2: for every width, every signed dividend a and every non-zero signed
\* divisor d, except the pair (INT_MIN, -1), IntDiv(a, ComputeDivisorParams(d))
\* is a / d rounded toward zero.
C2_SignedQuotient ==
    (op = "IntDiv" /\ T.signed) =>
        \A i \in DOMAIN dividend :
            ~IsMinByMinusOne(T, dividend[i], divisor) =>
                IsQuotientTrunc(dividend[i], divisor, result[i])

\* C3: for every signed width, every dividend a and every non-zero divisor
\* d, except the pair (INT_MIN, -1), IntDivFloor(a, ComputeDivisorParams(d))
\* is the mathematical floor of a / d.
C3_SignedFloor ==
    (op = "IntDivFloor" /\ T.signed) =>
        \A i \in DOMAIN dividend :
            ~IsMinByMinusOne(T, dividend[i], divisor) =>
                IsQuotientFloor(dividend[i], divisor, result[i])

\* C4: for every signed width, IntDiv(INT_MIN, ComputeDivisorParams(-1)) is
\* INT_MIN in every lane, and neither the derivation nor the division ends
\* in an error outcome.
C4_MinByMinusOneWraps ==
    (T.signed /\ op # "none" /\ divisor = MinusOne(T)) =>
        /\ pc \notin {"aborted", "trapped"}
        /\ op = "IntDiv" =>
               \A i \in DOMAIN dividend :
                   dividend[i] = IntMin(SizeOf(T)) => result[i] = IntMin(SizeOf(T))

C4_Witness ==
    /\ T.signed /\ op = "IntDiv" /\ pc = "done" /\ divisor = MinusOne(T)
    /\ dividend = Set(MaxLanes, IntMin(SizeOf(T)))
    /\ result = Set(MaxLanes, IntMin(SizeOf(T)))

\* C5: ComputeDivisorParams called with divisor 0 aborts and returns no
\* parameter block; DivideByScalar, FloorDivideByScalar, DivideArrayByScalar
\* and FloorDivideArrayByScalar called with divisor 0 abort before a lane is
\* computed or an array element is written.
C5_ZeroDivisorAborts ==
    (op # "none" /\ BIsZero(divisor)) =>
        /\ pc = "aborted"
        /\ params = NoParams
        /\ result = << >>
        /\ array = array0

C5_Witness ==
    /\ op = "FloorDivideArrayByScalar" /\ BIsZero(divisor) /\ pc = "aborted"
    /\ count > 0 /\ array = array0

\* C6: for divisor 1 IntDiv(a, ComputeDivisorParams(1)) is a for every
\* dividend a; for signed divisor -1 and every a other than INT_MIN,
\* IntDiv(a, ComputeDivisorParams(-1)) is -a.
C6_IdentityAndNegation ==
    op = "IntDiv" =>
        /\ divisor = BOne(SizeOf(T)) => result = dividend
        /\ (T.signed /\ divisor = MinusOne(T)) =>
               \A i \in DOMAIN dividend :
                   dividend[i] # IntMin(SizeOf(T)) => BIsZero(BAdd(result[i], dividend[i]))

C6_Witness ==
    /\ op = "IntDiv" /\ T.signed /\ divisor = MinusOne(T)
    /\ \E i \in DOMAIN dividend :
           /\ dividend[i] # IntMin(SizeOf(T))
           /\ ~BIsZero(dividend[i])
           /\ BIsZero(BAdd(result[i], dividend[i]))

\* |d| = 2^k
IsPow2Magnitude(Ty, d, k) ==
    d = BPow2(k, SizeOf(Ty)) \/ (Ty.signed /\ d = BNeg(BPow2(k, SizeOf(Ty))))

\* C7: whenever the magnitude of the non-zero divisor is a power of two 2^k
\* (divisor 1, negative powers of two and the signed minimum included),
\* ComputeDivisorParams returns is_pow2 = true and pow2_shift = k; for every
\* other divisor it returns is_pow2 = false.
C7_Pow2Recognized ==
    params # NoParams =>
        /\ \A k \in 0..(T.bits - 1) :
               IsPow2Magnitude(T, divisor, k) => (params.is_pow2 /\ params.pow2_shift = k)
        /\ (\A k \in 0..(T.bits - 1) : ~IsPow2Magnitude(T, divisor, k)) => ~params.is_pow2

C7_Witness ==
    /\ T.signed /\ op = "ComputeDivisorParams" /\ pc = "params"
    /\ divisor = IntMin(SizeOf(T))
    /\ params.is_pow2 /\ params.pow2_shift = T.bits - 1

\* C8: when the signed divisor is the minimum value of width W,
\* ComputeDivisorParams returns the tabulated tuple: multiplier 2^(W-1) + 1
\* with shift W - 2.
C8_SignedMinTuple ==
    (params # NoParams /\ T.signed /\ divisor = IntMin(SizeOf(T))) =>
        /\ params.multiplier = BAdd(BPow2(T.bits - 1, MulTypeSize(T)), BOne(MulTypeSize(T)))
        /\ params.shift = T.bits - 2

\* C9: for every lane type, dividend vector v and non-zero divisor d,
\* DivideByScalar(v, d) is IntDiv(v, ComputeDivisorParams(d)) and
\* FloorDivideByScalar(v, d) is IntDivFloor(v, ComputeDivisorParams(d)), also
\* for the unsigned powers of two that DivideByScalar shifts by directly.
C9_ScalarIsDeriveThenDivide ==
    (op \in {"DivideByScalar", "FloorDivideByScalar"} /\ ~BIsZero(divisor)) =>
        /\ pc \in {"done", "trapped"}
        /\ pc = "trapped" =>
               \E env \in Envs(T, divisor) :
                   ComputeDivisorParams(T, divisor, env, build).outcome = "trap"
        /\ pc = "done" =>
               \A env \in Envs(T, divisor) :
                   LET r == ComputeDivisorParams(T, divisor, env, build)
                   IN  r.outcome = "ok" =>
                           result = IF op = "DivideByScalar"
                                    THEN IntDiv(T, dividend, r.params, build)
                                    ELSE IntDivFloor(T, dividend, r.params, build)

C9_Witness ==
    /\ op = "DivideByScalar" /\ pc = "done" /\ ~T.signed
    /\ IsPow2(divisor) /\ divisor # BOne(SizeOf(T))
    /\ result # dividend

\* C10: for every count n >= 0, every number of lanes N >= 1 and every
\* non-zero divisor d, after DivideArrayByScalar(array, n, d) each element
\* i < n holds IntDiv(old array[i], ComputeDivisorParams(d)), and IntDivFloor
\* after FloorDivideArrayByScalar, also when n is not a multiple of N and
\* when n < N.
C10_ArrayIsElementwise ==
    (op \in {"DivideArrayByScalar", "FloorDivideArrayByScalar"} /\ ~BIsZero(divisor)) =>
        /\ pc \in {"done", "trapped"}
        /\ pc = "done" =>
               \A env \in Envs(T, divisor) :
                   LET r == ComputeDivisorParams(T, divisor, env, build)
                   IN  r.outcome = "ok" =>
                           \A i \in 1..count :
                               array[i] = IF op = "DivideArrayByScalar"
                                          THEN IntDiv(T, <<array0[i]>>, r.params, build)[1]
                                          ELSE IntDivFloor(T, <<array0[i]>>, r.params, build)[1]

C10_Witness ==
    /\ op = "DivideArrayByScalar" /\ pc = "done"
    /\ count > lanes /\ count % lanes # 0
    /\ array[count] # array0[count]

\* r = floor(h * 2^64 / d) modulo 2^64: with q the number whose low 64 bits
\* are r and whose high bits are h / d,  q * d <= h * 2^64 < q * d + d
IsHighQuotient(h, d, r) ==
    LET m == 25
        q == BZext(r \o BDiv(h, d), m)
        n == BZext(BZero(8) \o h, m)
    IN  BLeU(BMul(q, BZext(d, m), m), n) /\ BLtU(n, BAdd(BMul(q, BZext(d, m), m), BZext(d, m)))

\* C11: for every 64-bit high and every non-zero 64-bit divisor,
\* DivideHighBy(high, divisor) returns floor(high * 2^64 / divisor) modulo
\* 2^64 (so DivideHighBy(1, 3) = 0x5555555555555555, DivideHighBy(2^63, 2^63)
\* = 0 and DivideHighBy(1, 2^64 - 1) = 1).
C11_DivideHighByExact ==
    op = "DivideHighBy" =>
        /\ pc = "done"
        /\ IsHighQuotient(dividend[1], divisor, result[1])

\* C12: for every divisor whose magnitude is a power of two (1 included) and
\* every dividend, IntDiv with the fast-path parameters (is_pow2 = true)
\* returns the quotient IntDiv returns with the parameters of the derivation
\* whose power-of-two arm is suppressed.
C12_Pow2AgreesWithGeneral ==
    (op = "IntDiv" /\ params.is_pow2) =>
        \A env \in Envs(T, divisor) :
            result = IntDiv(T, dividend, ComputeDivisorParamsGeneral(T, divisor, env, build).params, build)

\* The build with HWY_INTDIV_SCALAR64 set to flag, everything else the same.
WithScalar64(b, flag) == [b EXCEPT !.scalar64 = flag]

\* C13: for 64-bit lanes, signed and unsigned, every parameter block
\* ComputeDivisorParams produces and every dividend, IntDiv returns the same
\* quotient with the scalar fallback (HWY_INTDIV_SCALAR64 = 1) as with the
\* multiply-high path (HWY_INTDIV_SCALAR64 = 0).
C13_ScalarFallbackAgrees ==
    (op = "IntDiv" /\ T.bits = 64) =>
        IntDiv(T, dividend, params, WithScalar64(build, TRUE))
            = IntDiv(T, dividend, params, WithScalar64(build, FALSE))

\* One shift of a lane by s bits, 0 <= s < width: arithmetic for signed
\* lanes, logical for unsigned lanes.
ShiftedBy(Ty, x, s) == IF Ty.signed THEN BSar(x, s) ELSE BShr(x, s)

\* C14: ShiftRightUniform(v, s) leaves every lane unchanged when s <= 0, and
\* for 0 < s < W returns in every lane the value shifted right by exactly s
\* bits, sign-filling for signed lanes and zero-filling for unsigned lanes:
\* the decomposition into the fixed shifts 32, 16, 8, 4, 2, 1 gives the
\* result of one shift by s.
C14_ShiftByCount ==
    op = "ShiftRightUniform" =>
        /\ sh <= 0 => result = dividend
        /\ (0 < sh /\ sh < T.bits) =>
               \A i \in DOMAIN dividend : result[i] = ShiftedBy(T, dividend[i], sh)

C14_Witness ==
    /\ op = "ShiftRightUniform" /\ T.signed /\ T.bits = 64
    /\ sh = 33
    /\ \E i \in DOMAIN dividend : BIsNeg(dividend[i]) /\ result[i] # dividend[i]

\* C15: for a shift count s >= W, ShiftRightUniform clamps the count to
\* W - 1: every signed lane becomes all sign bits (0 or -1) and every
\* unsigned lane becomes zero.
C15_ClampedShift ==
    (op = "ShiftRightUniform" /\ sh >= T.bits) =>
        \A i \in DOMAIN dividend :
            result[i] = IF T.signed /\ BIsNeg(dividend[i]) THEN BOnes(SizeOf(T)) ELSE BZero(SizeOf(T))

\* C15 (amended): for a shift count s >= W, ShiftRightUniform clamps the
\* count to W - 1: every signed lane becomes all sign bits (0 or -1) and
\* every unsigned lane becomes its top bit (0 or 1).
C15_ClampedShiftTopBit ==
    (op = "ShiftRightUniform" /\ sh >= T.bits) =>
        \A i \in DOMAIN dividend :
            result[i] = IF ~BIsNeg(dividend[i]) THEN BZero(SizeOf(T))
                        ELSE IF T.signed THEN BOnes(SizeOf(T)) ELSE BOne(SizeOf(T))

C15_Witness ==
    /\ op = "ShiftRightUniform" /\ sh > T.bits /\ ~T.signed
    /\ \E i \in DOMAIN dividend : BIsNeg(dividend[i]) /\ result[i] = BOne(SizeOf(T))

\* The blocks that agree with p on is_pow2 and pow2_shift, with other
\* multipliers, shifts and divisors.
Variants(Ty, p) ==
    IF Ty.signed
    THEN {DivisorParamsS(m, s, d, p.is_pow2, p.pow2_shift) :
              m \in {BOne(MulTypeSize(Ty)), BOnes(MulTypeSize(Ty))}, s \in {0, Ty.bits - 2},
              d \in {p.divisor, BNeg(p.divisor)}}
    ELSE {DivisorParamsU(m, s1, s2, p.is_pow2, p.pow2_shift, d) :
              m \in {BOne(MulTypeSize(Ty)), BOnes(MulTypeSize(Ty))}, s1 \in {0, 1}, s2 \in {0, Ty.bits - 1},
              d \in {p.divisor, BNeg(p.divisor)}}

\* C16: for a parameter block with is_pow2 = true the IntDiv result is a
\* function of the dividend and pow2_shift alone: two blocks, signed or
\* unsigned, that agree on pow2_shift give equal results for every dividend
\* whatever their multiplier, shift and other fields.
C16_Pow2ShiftAlone ==
    (op = "IntDiv" /\ params.is_pow2) =>
        \A p2 \in Variants(T, params) : IntDiv(T, dividend, p2, build) = result

\* C16 (amended): for a parameter block with is_pow2 = true the IntDiv result
\* is a function of the dividend, pow2_shift and, for signed lanes, the sign
\* of the divisor field: two blocks that agree on these give equal results
\* whatever their multiplier, shifts and the magnitude of their divisor.
C16_Pow2ShiftAndSign ==
    (op = "IntDiv" /\ params.is_pow2) =>
        \A p2 \in Variants(T, params) :
            (T.signed => (BIsNeg(p2.divisor) <=> BIsNeg(params.divisor))) =>
                IntDiv(T, dividend, p2, build) = result

C16_Witness ==
    /\ op = "IntDiv" /\ T.signed /\ params.is_pow2 /\ params.pow2_shift = 3
    /\ BIsNeg(params.divisor) /\ result # dividend
    /\ \E p2 \in Variants(T, params) :
           /\ p2.multiplier # params.multiplier /\ p2.shift # params.shift
           /\ BIsNeg(p2.divisor)
           /\ IntDiv(T, dividend, p2, build) = result

\* C17: for every parameter block ComputeDivisorParams returns and every
\* dividend vector, IntDiv and IntDivFloor reach no error state: the assertion
\* params.divisor != 0 holds and every lane of the result is defined (the
\* 64-bit scalar fallback divides neither by zero nor INT_MIN by -1).
C17_NoErrorState ==
    op \in {"IntDiv", "IntDivFloor"} =>
        /\ pc = "done"
        /\ ~BIsZero(params.divisor)
        /\ Len(result) = Len(dividend)
        /\ \A i \in DOMAIN result : result[i] # Undef

C17_Witness ==
    /\ op = "IntDiv" /\ build.scalar64 /\ T = LaneType(64, TRUE) /\ ~params.is_pow2
    /\ \E i \in DOMAIN dividend :
           dividend[i] = IntMin(8) /\ result[i] # Undef /\ ~BIsZero(result[i])

\* C18: for every unsigned parameter block p and every dividend a,
\* IntDivFloor(a, p) equals IntDiv(a, p).
C18_UnsignedFloorIsIntDiv ==
    (op = "IntDivFloor" /\ ~T.signed) =>
        result = IntDiv(T, dividend, params, build)

C18_Witness ==
    /\ op = "IntDivFloor" /\ ~T.signed /\ ~params.is_pow2
    /\ result = IntDiv(T, dividend, params, build)
    /\ \E i \in DOMAIN dividend :
           BIsNeg(dividend[i]) /\ ~BIsZero(result[i]) /\ result[i] # dividend[i]

\* C19: for every non-zero divisor d of every width and signedness, on every
\* derivation arm (power-of-two, and the unit, minimum-value and general arms
\* behind it), the block ComputeDivisorParams(d) returns has its divisor
\* field equal to d, so the field is non-zero in every derived block.
C19_DivisorStored ==
    pc \in {"params", "done"} =>
        /\ params.divisor = divisor
        /\ ~BIsZero(params.divisor)
        /\ pc = "params" =>
               \A env \in Envs(T, divisor) :
                   \A r \in {ComputeDivisorParamsGeneral(T, divisor, env, build)} :
                       r.outcome = "ok" => r.params.divisor = divisor

C19_Witness ==
    /\ pc = "params" /\ op = "ComputeDivisorParams"
    /\ T.signed /\ BIsNeg(divisor) /\ ~params.is_pow2
    /\ params.divisor = divisor

\* The smallest L with 2^L >= d, for an unsigned d of the width of Ty.
CeilLog2(Ty, d) ==
    LET n == SizeOf(Ty) + 1
        Covers(l) == BLeU(BZext(d, n), BPow2(l, n))
    IN  CHOOSE l \in 0..Ty.bits : Covers(l) /\ \A k \in 0..(l - 1) : ~Covers(k)

\* floor(((2^L - d) mod 2^W) * 2^W / d) + 1 in 2W-bit arithmetic.
ReferenceMultiplier(Ty, d, L) ==
    LET n == SizeOf(Ty)
        two_l == BTrunc(BPow2(L, n + 1), n)
    IN  BAdd(BZext(BDiv(BShl(BZext(BSub(two_l, d), 2 * n), Ty.bits), BZext(d, 2 * n)), 2 * n),
             BOne(2 * n))

\* C20: for every unsigned width W and every divisor d that is not a power
\* of two, with L the smallest integer such that 2^L >= d,
\* ComputeDivisorParams(d) returns multiplier
\* floor(((2^L - d) mod 2^W) * 2^W / d) + 1, shift1 = 1 and shift2 = L - 1,
\* the case L = W included.
C20_UnsignedGeneralBlock ==
    (pc = "params" /\ ~T.signed /\ ~IsPow2(divisor)) =>
        /\ BZext(params.multiplier, 2 * SizeOf(T)) = ReferenceMultiplier(T, divisor, CeilLog2(T, divisor))
        /\ params.shift1 = 1
        /\ params.shift2 = CeilLog2(T, divisor) - 1

\* floor(2^(W+sh) / ad) + 1 reduced modulo 2^W, read as a signed W-bit value
\* and held in the multiplier type of Ty.
ReferenceMultiplierS(Ty, ad, s) ==
    LET n == SizeOf(Ty)
        w == 2 * n + 1
    IN  BSext(BTrunc(BAdd(BZext(BDiv(BPow2(Ty.bits + s, w), BZext(ad, w)), w), BOne(w)), n),
              MulTypeSize(Ty))

\* C21: for every signed width W and every divisor d whose magnitude ad is
\* not a power of two, with sh = ceil(log2(ad)) - 1, ComputeDivisorParams(d)
\* returns shift = sh and the multiplier floor(2^(W+sh) / ad) + 1 reduced
\* modulo 2^W and read as a signed W-bit value.
C21_SignedGeneralBlock ==
    (pc = "params" /\ T.signed /\ ~IsPow2(Magnitude(divisor, SizeOf(T)))) =>
        /\ params.shift = CeilLog2(T, Magnitude(divisor, SizeOf(T))) - 1
        /\ params.multiplier = ReferenceMultiplierS(T, Magnitude(divisor, SizeOf(T)), params.shift)

\* C22: on the signed main path the 8- and 16-bit lanes compute what the
\* 32- and 64-bit lanes compute: for every dividend and every derived
\* non-power-of-two block, promote, multiply by the stored multiplier,
\* arithmetic shift right by W and demote yields the signed W-bit
\* multiply-high of the dividend and the W-bit magic multiplier.
C22_NarrowHighIsMulHigh ==
    (op = "IntDiv" /\ T.signed /\ T.bits <= 16 /\ ~params.is_pow2) =>
        IntDivSHigh(T, dividend, params) =
            MulHigh(T, dividend, Set(Len(dividend), BTrunc(params.multiplier, SizeOf(T))))

\* x + y does not leave the signed range of the width of x.
NoSignedOverflow(x, y) ==
    BAdd(BSext(x, Len(x) + 1), BSext(y, Len(x) + 1)) = BSext(BAdd(x, y), Len(x) + 1)

\* C23: on the signed power-of-two exit, for every dividend a (INT_MIN
\* included) and every divisor +/-2^k (INT_MIN included), the bias is
\* (a >> (W-1)) & (2^k - 1), a + bias does not overflow the signed range,
\* and the result is a / d rounded toward zero, wrapping to INT_MIN only for
\* INT_MIN / -1.
C23_Pow2ExitTruncates ==
    (op = "IntDiv" /\ T.signed /\ params.is_pow2) =>
        \A i \in DOMAIN dividend :
            /\ IntDivSBias(T, dividend, params)[i] =
                  (IF BIsNeg(dividend[i]) THEN BSub(Magnitude(divisor, SizeOf(T)), BOne(SizeOf(T)))
                   ELSE BZero(SizeOf(T)))
            /\ NoSignedOverflow(dividend[i], IntDivSBias(T, dividend, params)[i])
            /\ IF IsMinByMinusOne(T, dividend[i], divisor)
               THEN result[i] = IntMin(SizeOf(T))
               ELSE IsQuotientTrunc(dividend[i], divisor, result[i])

C23_Witness ==
    /\ op = "IntDiv" /\ T.signed /\ params.is_pow2
    /\ divisor = IntMin(SizeOf(T))
    /\ \E i \in DOMAIN dividend : dividend[i] = IntMin(SizeOf(T)) /\ result[i] = BOne(SizeOf(T))

\* C24: the portable branch of DivideHighBy returns, for every high and
\* every non-zero divisor, the value the 128-bit branch returns,
\* floor(high * 2^64 / divisor) mod 2^64; both quotient digits are exact.
C24_PortableAgreesWithInt128 ==
    op = "DivideHighBy" =>
        /\ DivideHighBy(dividend[1], divisor, [build EXCEPT !.divh = "portable"])
               = DivideHighBy(dividend[1], divisor, [build EXCEPT !.divh = "int128"])
        /\ IsHighQuotient(dividend[1], divisor,
                          DivideHighBy(dividend[1], divisor, [build EXCEPT !.divh = "portable"]))

\* The shift counts IntDiv hands to ShiftRightUniform for the block p.
ShiftCountsUsed(Ty, p) ==
    IF p.is_pow2 THEN {p.pow2_shift}
    ELSE IF Ty.signed
    THEN (IF p.shift = 0 /\ p.multiplier = BOne(MulTypeSize(Ty)) THEN {} ELSE {p.shift})
    ELSE (IF p.shift1 = 0 /\ p.shift2 = 0 /\ p.multiplier = BOne(MulTypeSize(Ty)) THEN {}
          ELSE {p.shift1, p.shift2})

\* The ranges of the shift fields other than pow2_shift, and of the counts
\* handed to ShiftRightUniform.
ShiftsInRange(Ty, p) ==
    /\ IF Ty.signed THEN p.shift \in 0..(Ty.bits - 1)
       ELSE p.shift1 \in 0..Ty.bits /\ p.shift2 \in 0..Ty.bits
    /\ ShiftCountsUsed(Ty, p) \subseteq 0..(Ty.bits - 1)

\* C25: every block ComputeDivisorParams returns for a non-zero divisor of
\* width W has shift1 and shift2 in [0, W] (unsigned), shift in [0, W-1]
\* (signed) and pow2_shift in [0, W-1]; every shift count IntDiv hands to
\* ShiftRightUniform is below W.
C25_FieldRanges ==
    pc = "params" =>
        /\ ShiftsInRange(T, params)
        /\ params.pow2_shift \in 0..(T.bits - 1)

\* C25 as the code has it: pow2_shift is in [0, W-1] in the blocks with
\* is_pow2 set, the only ones in which the field is assigned.
C25_FieldRangesPow2 ==
    pc = "params" =>
        /\ ShiftsInRange(T, params)
        /\ params.is_pow2 => params.pow2_shift \in 0..(T.bits - 1)

C25_Witness ==
    /\ pc = "params" /\ ~T.signed /\ ~params.is_pow2
    /\ params.shift2 = T.bits - 1
    /\ params.pow2_shift \notin 0..(T.bits - 1)

C27_FloorMinByMinusOne ==
    (op = "IntDivFloor" /\ T.signed /\ divisor = MinusOne(T)) =>
        \A i \in DOMAIN dividend :
            dividend[i] = IntMin(SizeOf(T)) =>
                /\ IntDiv(T, dividend, params, build)[i] = IntMin(SizeOf(T))
                /\ Mul(IntDiv(T, dividend, params, build), Set(Len(dividend), divisor))[i] = dividend[i]
                /\ result[i] = IntMin(SizeOf(T))

C27_Witness ==
    /\ op = "IntDivFloor" /\ pc = "done" /\ T.signed /\ divisor = MinusOne(T)
    /\ \E i \in DOMAIN dividend : dividend[i] = IntMin(SizeOf(T)) /\ result[i] = IntMin(SizeOf(T))

\* C28: DivideArrayByScalar and FloorDivideArrayByScalar on n elements with N
\* lanes per vector write each index below n exactly once (each element is
\* divided once, by the whole-vector loop or by the remainder step) and
\* write no index >= n; with n = 0 nothing is written.
C28_ArrayFrame ==
    (op \in {"DivideArrayByScalar", "FloorDivideArrayByScalar"} /\ pc = "done") =>
        /\ Len(array) = Len(array0)
        /\ \A i \in DOMAIN array0 :
               ArrayStores(count, lanes, 0, [k \in DOMAIN array0 |-> 0])[i] = (IF i <= count THEN 1 ELSE 0)
        /\ \A i \in DOMAIN array0 : i > count => array[i] = array0[i]
        /\ \A env \in Envs(T, divisor) :
               \A r \in {ComputeDivisorParams(T, divisor, env, build)} :
                   r.outcome = "ok" =>
                       \A i \in 1..count :
                           array[i] = (IF op = "DivideArrayByScalar"
                                       THEN IntDiv(T, <<array0[i]>>, r.params, build)
                                       ELSE IntDivFloor(T, <<array0[i]>>, r.params, build))[1]

C28_Witness ==
    /\ op = "FloorDivideArrayByScalar" /\ pc = "done"
    /\ count = 3 /\ lanes = 2
    /\ array[2] # array0[2] /\ array[3] # array0[3] /\ array[4] = array0[4]

\* The block p without the value of pow2_shift where is_pow2 is not set.
AssignedFields(p) == IF p.is_pow2 THEN p ELSE [p EXCEPT !.pow2_shift = 0]

\* C29: every field of the block ComputeDivisorParams returns is determined
\* by the divisor alone: two derivations from the same non-zero divisor
\* return equal blocks, on the general arm as on the power-of-two arm.
C29_BlockDetermined ==
    pc = "params" =>
        \A env \in Envs(T, divisor) :
            \A r \in {ComputeDivisorParams(T, divisor, env, build)} :
                r.outcome = "ok" => r.params = params

\* C29 as the code has it: the fields the derivation assigns are
\* determined by the divisor; pow2_shift is assigned on the power-of-two
\* arm only.
C29_AssignedFieldsDetermined ==
    pc = "params" =>
        \A env \in Envs(T, divisor) :
            \A r \in {ComputeDivisorParams(T, divisor, env, build)} :
                r.outcome = "ok" =>
                    /\ AssignedFields(r.params) = AssignedFields(params)
                    /\ r.params.is_pow2 => r.params = params

C29_Witness ==
    /\ pc = "params" /\ ~params.is_pow2
    /\ \E env \in Envs(T, divisor) :
           /\ ComputeDivisorParams(T, divisor, env, build).outcome = "ok"
           /\ ComputeDivisorParams(T, divisor, env, build).params # params
           /\ AssignedFields(ComputeDivisorParams(T, divisor, env, build).params) = AssignedFields(params)

\* x + y does not leave the unsigned range of the width of x.
NoUnsignedOverflow(x, y) ==
    BAdd(BZext(x, Len(x) + 1), BZext(y, Len(x) + 1)) = BZext(BAdd(x, y), Len(x) + 1)

\* C30: in the 8- and 16-bit unsigned main path no intermediate wraps: for
\* every derived non-power-of-two block the multiplier is below 2^W, the
\* promoted product dividend * multiplier is below 2^(2W), the high half t1
\* is at most the dividend, and t1 + ((dividend - t1) >> shift1) is below
\* 2^W.
C30_NarrowUnsignedNoWrap ==
    (op = "IntDiv" /\ ~T.signed /\ T.bits <= 16 /\ ~params.is_pow2) =>
        /\ BZext(BTrunc(params.multiplier, SizeOf(T)), 2 * SizeOf(T)) = params.multiplier
        /\ \A i \in DOMAIN dividend :
               \A t \in {IntDivUHigh(T, dividend, params)[i]} :
                   /\ BMul(BZext(dividend[i], 4 * SizeOf(T)), BZext(params.multiplier, 4 * SizeOf(T)),
                           4 * SizeOf(T))
                        = BZext(BMul(BZext(dividend[i], 2 * SizeOf(T)), params.multiplier, 2 * SizeOf(T)),
                                4 * SizeOf(T))
                   /\ BLeU(t, dividend[i])
                   /\ NoUnsignedOverflow(t, ShiftRightUniform(T, <<BSub(dividend[i], t)>>, params.shift1)[1])

====
